---------------------------- MODULE Spec2Model ----------------------------
(***************************************************************************)
(* Download orchestration engine of src-tauri/src/plugins/downloader.rs:   *)
(* the shared DownloaderStateInner, the Tauri commands that enqueue,       *)
(* cancel and clear, the drain thread spawned by ensure_worker, and the    *)
(* scoped track workers of download_album.                                 *)
(*                                                                         *)
(* One step of a thread is one critical section (one lock acquisition or   *)
(* one atomic operation) together with the thread-local code and external  *)
(* calls that precede it.  Vec indices are 1-based here (album_idx = i     *)
(* stands for the Rust index i - 1).                                       *)
(*                                                                         *)
(* Audio engine of src-tauri/src/audio/engine.rs: the AudioEngineHandle,   *)
(* its command channel, and the audio thread that owns the rodio Sink and  *)
(* the PositionTracker.  One step of a handle call is one read of the      *)
(* shared state or one send; one step of the audio thread is one whole     *)
(* handle_command or tick (nothing else writes what the thread writes).    *)
(***************************************************************************)
EXTENDS Integers, Sequences, FiniteSets

(* ------------------------------ bounds --------------------------------- *)
\* Spec: one thread invokes the commands; it enqueues at most MaxItems items,
\* and the track list of an album has MaxTracks names.
MaxItems == 3
MaxTracks == 2
\* SpecPair: NumCallers threads invoke the commands concurrently; together
\* they enqueue at most PairItems items, an album has PairTracks tracks.
NumCallers == 2
PairItems == 3
PairTracks == 1
\* SpecHist: as Spec with at most HistItems items, and with the history of
\* downloader_cancel calls recorded on the entries.
HistItems == 2
\* SpecShift: one caller enqueues a song, then the long album, then an album
\* of ShortTracks tracks.
ShortTracks == 1
\* SpecTracks: one caller enqueues at most TrackItems items, an album has
\* ManyTracks tracks; history is recorded.
TrackItems == 1
ManyTracks == 3
\* SpecRuns: one caller enqueues at most RunItems items, an album has
\* RunTracks tracks; in half of the scenarios downloader_cancel is never
\* invoked.
RunItems == 2
RunTracks == 1
\* SpecSongs: one caller enqueues at most SongItems items, each an album of
\* SongTracks tracks, a song, or a song without a video id.
SongItems == 2
SongTracks == 1
\* SpecLong: one caller enqueues a song, the long album and two more songs of
\* the same title; an album has LongTracks tracks.
LongTracks == 1
\* SpecLists: one caller enqueues at most ListItems items, each a song or an
\* album whose request carries no track list, an empty one or a list of one
\* track; the track list the metadata service returns has ListTracks tracks.
ListItems == 2
ListTracks == 2
\* SpecAudio: NumHandles threads call the AudioEngineHandle; together they
\* make at most MaxCalls calls of play_track, pause, resume, stop and
\* toggle_play and at most MaxToggles calls of toggle_mute; the tracks
\* played are 1..NumTracks.
NumHandles == 2
MaxCalls == 3
MaxToggles == 2
NumTracks == 2

MAX_CONCURRENT_TRACKS == 3

VARIABLES
    is_active,       \* DownloadState.is_active
    albums,          \* DownloadState.albums
    poisoned,        \* the state mutex is poisoned (a holder panicked)
    cancel,          \* DownloaderStateInner.cancel
    worker_running,  \* DownloaderStateInner.worker_running
    pending_queue,   \* DownloaderStateInner.pending_queue
    callers,         \* position of every command-invoking thread
    drains,          \* the drain threads spawned so far, in spawn order
    nextId,          \* number of items enqueued so far (history)
    scn,             \* the scenario: the inputs the callers draw from
    state,           \* AudioEngineHandle.state / AudioThread.state (SharedState)
    position,        \* AudioThread.position (PositionTracker)
    sink,            \* AudioThread.sink (the rodio Sink)
    current_track_id,\* AudioThread.current_track_id
    cmd_rx,          \* the commands in the channel (cmd_tx, cmd_rx)
    handles,         \* position of every thread calling the AudioEngineHandle
    calls            \* number of handle calls made so far (history)

\* the audio engine of src-tauri/src/audio/engine.rs
engine == <<state, position, sink, current_track_id, cmd_rx, handles, calls>>

\* the downloader of src-tauri/src/plugins/downloader.rs
downloader == <<is_active, albums, poisoned, cancel, worker_running, pending_queue,
                callers, drains, nextId, scn>>

vars == <<is_active, albums, poisoned, cancel, worker_running, pending_queue,
          callers, drains, nextId, scn,
          state, position, sink, current_track_id, cmd_rx, handles, calls>>

Callers == DOMAIN callers

shared == <<is_active, albums, poisoned, cancel, worker_running, pending_queue>>

Terminal == {"complete", "error", "cancelled"}
Unfinished == {"pending", "downloading"}

Min(a, b) == IF a < b THEN a ELSE b

(* ------------------------------ requests ------------------------------- *)
\* AlbumRequest and SongRequest; key stands for the (artist, label) pair.  The
\* label of a song, "<title> (Single)", is taken never to equal an album's.
LongAlbum == [kind |-> "album", key |-> 1]
ShortAlbum == [kind |-> "album", key |-> 2]
Song == [kind |-> "song", key |-> 1]
\* a song for which the call of downloader_download_songs passes no video id
\* (video_ids is shorter than songs)
SongNoId == [kind |-> "song", key |-> 1, video_ids |-> 0]

\* the long album requested with an explicit track list (tracks: Some(list))
\* of one track, and with an empty one (tracks: Some(vec![])); the other
\* album requests have tracks: None
ListedAlbum == [kind |-> "album", key |-> 1, tracks |-> <<"listed">>]
EmptyListAlbum == [kind |-> "album", key |-> 1, tracks |-> <<>>]

\* Length of the track list fetch_tracklist returns for the request; a song
\* is one track.
TrackCount(req) ==
    IF req.kind = "song" THEN 1
    ELSE IF req.key = 1 THEN scn.tracks ELSE ShortTracks

\* QueueItem; id (history) is the enqueue number of the item.
QueueItem(req, id) ==
    IF "tracks" \in DOMAIN req
      THEN [kind |-> req.kind, key |-> req.key, id |-> id, tracks |-> req.tracks]
      ELSE [kind |-> req.kind, key |-> req.key, id |-> id]

NoItem == [kind |-> "none", key |-> 0, id |-> 0]

\* AlbumDownloadState as pushed by downloader_start / downloader_download_songs.
\* History fields: id, the enqueue number; cancelReq, the entry was pending
\* when downloader_cancel was called; fresh (recorded when scn.hist), the
\* entry was pushed after a run had ended with the cancel signal set, and
\* downloader_cancel has not been called since.
NewAlbumState(req, id) ==
    [id |-> id, kind |-> req.kind, key |-> req.key,
     status |-> "pending", completed_tracks |-> 0,
     total_tracks |-> IF req.kind = "song" THEN 1 ELSE 0,
     error |-> "none", active_tracks |-> <<>>, cancelReq |-> FALSE,
     fresh |-> FALSE]

\* a drain loop has run and has cleared worker_running (line 374) with the
\* cancel signal still set
CancelledRunExited == cancel /\ ~worker_running /\ drains # <<>>

(* ---------------------------- drain thread ------------------------------ *)
\* A track of the album in flight: in the channel ("chan"), held by a scoped
\* worker at some line of process_single_track, or left ("out").  new_count is
\* the worker's local of that name.
ChanTrack == [pc |-> "chan", new_count |-> 0]
OutTrack == [pc |-> "out", new_count |-> 0]

\* A thread spawned by ensure_worker.  item and album_idx are the loop's
\* locals.  total_tracks, completed and cancelled are download_album's locals;
\* tracks holds the channel and the workers that are inside
\* process_single_track, waiting counts the workers at recv(); the scoped
\* workers run the same closure and are told apart only by the track they
\* hold.  wpanic: a scoped worker panicked.  History: curId, the id of the
\* entry album_idx was resolved to; cancelSeen, the run observed the cancel
\* flag; saidCancelled, it emitted download-cancelled; fetched (recorded when
\* scn.hist), a track of the album in flight went past the skip test of line
\* 786 to add_active_track and search_youtube.
NewDrain ==
    [pc |-> "dequeue", item |-> NoItem, album_idx |-> 0,
     total_tracks |-> 0, completed |-> 0, cancelled |-> FALSE,
     tracks |-> <<>>, waiting |-> 0, wpanic |-> FALSE,
     curId |-> 0, cancelSeen |-> FALSE, saidCancelled |-> FALSE,
     fetched |-> FALSE]

Drains == 1..Len(drains)

LoopPcs == {"dequeue", "check_cancel", "cancel_drain", "cancel_mark", "find_idx",
            "mark_downloading", "download_album", "join", "download_single_song"}

TailPcs == {"worker_done", "any_pending", "set_inactive"}

InLoop(d) == drains[d].pc \in LoopPcs

(* ------------------------------- Init ---------------------------------- *)
IdleCaller == [pc |-> "idle", reqs |-> <<>>, first |-> 0]

\* AudioEngineHandle::new: create_shared_state() (AudioState::new(), nothing
\* playing, not muted), an empty channel, and the audio thread started with
\* PositionTracker::new(), an empty sink and no current track id.  Option
\* values of tracks are 0 for None; play_start is "None" or "Some".
AudioEngineHandle_new ==
    /\ state = [current_track |-> 0, is_playing |-> FALSE, is_muted |-> FALSE,
                is_loading |-> FALSE, error |-> FALSE]
    /\ position = [play_start |-> "None"]
    /\ sink = [queued |-> 0, paused |-> FALSE]
    /\ current_track_id = 0
    /\ cmd_rx = <<>>
    /\ handles = [h \in 1..NumHandles |-> [pc |-> "idle", read |-> FALSE]]
    /\ calls = [commands |-> 0, toggles |-> 0]

\* DownloaderState::default(), lines 114-126, and no command invoked yet.
\* scenario: the requests the callers may enqueue (script), the length of the
\* long album's track list (tracks), whether history is recorded (hist) and
\* whether downloader_cancel is ever invoked (cancels).
StartWith(ncallers, scenario) ==
    /\ is_active = FALSE
    /\ albums = <<>>
    /\ poisoned = FALSE
    /\ cancel = FALSE
    /\ worker_running = FALSE
    /\ pending_queue = <<>>
    /\ callers = [c \in 1..ncallers |-> IdleCaller]
    /\ drains = <<>>
    /\ nextId = 0
    /\ scn = scenario
    /\ AudioEngineHandle_new

Start(ncallers, script, tracks, hist) ==
    StartWith(ncallers, [script |-> script, tracks |-> tracks, hist |-> hist,
                         cancels |-> TRUE])

\* the requests the i-th enqueued item is drawn from
AnyOf(items) == [i \in 1..items |-> {LongAlbum, Song}]

Init == Start(1, AnyOf(MaxItems), MaxTracks, FALSE)

InitPair == Start(NumCallers, AnyOf(PairItems), PairTracks, FALSE)

InitHist == Start(1, AnyOf(HistItems), MaxTracks, TRUE)

InitShift == Start(1, <<{Song}, {LongAlbum}, {ShortAlbum}>>, MaxTracks, FALSE)

InitTracks == Start(1, AnyOf(TrackItems), ManyTracks, TRUE)

InitSongs ==
    Start(1, [i \in 1..SongItems |-> {LongAlbum, Song, SongNoId}], SongTracks, FALSE)

\* four scripted requests, so that a fourth item follows a shifted third entry
InitLong == Start(1, <<{Song}, {LongAlbum}, {Song}, {Song}>>, LongTracks, FALSE)

InitLists ==
    Start(1, [i \in 1..ListItems |-> {LongAlbum, ListedAlbum, EmptyListAlbum, Song}],
          ListTracks, FALSE)

InitRuns ==
    \E cn \in BOOLEAN :
        StartWith(1, [script |-> AnyOf(RunItems), tracks |-> RunTracks,
                      hist |-> FALSE, cancels |-> cn])

(* ----------------------------- commands -------------------------------- *)
\* downloader_start / downloader_download_songs, lines 559-573 and 594-608:
\* under the state lock set is_active and push one display entry per request.
\* A poisoned lock makes the command return Err before it changes anything.
EnqueueState(c, req) ==
    /\ callers[c].pc = "idle"
    /\ ~poisoned
    /\ nextId < Len(scn.script)
    /\ req \in scn.script[nextId + 1]
    /\ is_active' = TRUE
    /\ albums' = Append(albums, [NewAlbumState(req, nextId + 1) EXCEPT
                                     !.fresh = scn.hist /\ CancelledRunExited])
    /\ nextId' = nextId + 1
    /\ callers' = [callers EXCEPT ![c] = [pc |-> "enq_queue", reqs |-> <<req>>,
                                          first |-> nextId + 1]]
    /\ UNCHANGED <<poisoned, cancel, worker_running, pending_queue, drains, scn, engine>>

\* the number of video ids the call passes: one for every request but the
\* songs without one (downloader_start takes no video ids and pushes every
\* album)
NumVideoIds(reqs) == Cardinality({i \in 1..Len(reqs) : reqs[i] # SongNoId})

\* (a queue block that pushes nothing)
Zipped_None(reqs) == <<>>

\* line 611: songs.into_iter().zip(video_ids.into_iter()) pairs the i-th song
\* with the i-th video id and stops at the shorter of the two
Zipped(reqs) == SubSeq(reqs, 1, Min(Len(reqs), NumVideoIds(reqs)))

\* lines 574-579 and 609-614: under the queue lock push one QueueItem per
\* album, or per (song, video id) pair.
EnqueueQueue(c) ==
    /\ callers[c].pc = "enq_queue"
    /\ pending_queue' = pending_queue \o
          [i \in 1..Len(Zipped(callers[c].reqs)) |->
              QueueItem(callers[c].reqs[i], callers[c].first + i - 1)]
    /\ callers' = [callers EXCEPT ![c] = [IdleCaller EXCEPT !.pc = "ensure_worker"]]
    /\ UNCHANGED <<is_active, albums, poisoned, cancel, worker_running, drains, nextId, scn, engine>>

\* (a gate that lets every call through)
EnsureWorkerSpawns_Always(running) == TRUE

\* ensure_worker, line 209: a thread is spawned only if none is marked running.
EnsureWorkerSpawns(running) == ~running

\* ensure_worker, lines 208-213: test and set worker_running under its lock.
EnsureWorkerGate(c) ==
    /\ callers[c].pc = "ensure_worker"
    /\ IF EnsureWorkerSpawns(worker_running)
         THEN /\ worker_running' = TRUE
              /\ callers' = [callers EXCEPT ![c].pc = "spawn"]
         ELSE /\ worker_running' = worker_running
              /\ callers' = [callers EXCEPT ![c] = IdleCaller]
    /\ UNCHANGED <<is_active, albums, poisoned, cancel, pending_queue, drains, nextId, scn, engine>>

\* ensure_worker, lines 215-222: reset cancel, then spawn the drain thread.
EnsureWorkerSpawn(c) ==
    /\ callers[c].pc = "spawn"
    /\ cancel' = FALSE
    /\ drains' = Append(drains, NewDrain)
    /\ callers' = [callers EXCEPT ![c] = IdleCaller]
    /\ UNCHANGED <<is_active, albums, poisoned, worker_running, pending_queue, nextId, scn, engine>>

\* downloader_cancel, lines 629-633.
Cancel(c) ==
    /\ callers[c].pc = "idle"
    /\ scn.cancels
    /\ cancel' = TRUE
    /\ albums' = [i \in 1..Len(albums) |->
                    [albums[i] EXCEPT
                        !.cancelReq = @ \/ (scn.hist /\ albums[i].status = "pending"),
                        !.fresh = FALSE]]
    /\ UNCHANGED <<is_active, poisoned, worker_running, pending_queue, callers,
                   drains, nextId, scn, engine>>

\* (a test that spares only the pending entries)
IsFinished_NotPending(a) == a.status # "pending"

\* downloader_clear_finished, line 639: the entries retain() drops.
IsFinished(a) == a.status \in Terminal

\* (a removal of the first finished entry only)
Retained_First(as) ==
    LET hits == {i \in 1..Len(as) : IsFinished(as[i])}
    IN IF hits = {} THEN as
       ELSE LET f == CHOOSE i \in hits : \A j \in hits : i <= j
            IN SubSeq(as, 1, f - 1) \o SubSeq(as, f + 1, Len(as))

\* line 639: what retain() leaves of the list
Retained(as) == SelectSeq(as, LAMBDA a : ~IsFinished(a))

\* lines 640-642: is_active after the call
ClearedActive(kept, act) == IF kept = <<>> THEN FALSE ELSE act

\* downloader_clear_finished, lines 637-644.
ClearFinished(c) ==
    /\ callers[c].pc = "idle"
    /\ ~poisoned
    /\ LET kept == Retained(albums)
       IN /\ albums' = kept
          /\ is_active' = ClearedActive(kept, is_active)
    /\ UNCHANGED <<poisoned, cancel, worker_running, pending_queue, callers,
                   drains, nextId, scn, engine>>

(* ----------------------------- drain loop ------------------------------ *)
SetDrain(d, rec) == drains' = [drains EXCEPT ![d] = rec]

\* The loop is left by a break: the thread goes on to "Worker done".
LeaveLoop(rec) == [NewDrain EXCEPT !.pc = "worker_done",
                                   !.cancelSeen = rec.cancelSeen,
                                   !.saidCancelled = rec.saidCancelled]

\* (a dequeue that reads the head and leaves it in the queue)
Dequeue_Peek(d) ==
    /\ drains[d].pc = "dequeue"
    /\ IF pending_queue = <<>>
         THEN SetDrain(d, LeaveLoop(drains[d]))
         ELSE SetDrain(d, [drains[d] EXCEPT !.pc = "check_cancel",
                                            !.item = Head(pending_queue)])
    /\ UNCHANGED <<shared, callers, nextId, scn, engine>>

\* lines 225-232: under the queue lock, break if empty, else remove the head.
Dequeue(d) ==
    /\ drains[d].pc = "dequeue"
    /\ IF pending_queue = <<>>
         THEN /\ SetDrain(d, LeaveLoop(drains[d]))
              /\ pending_queue' = pending_queue
         ELSE /\ SetDrain(d, [drains[d] EXCEPT !.pc = "check_cancel",
                                               !.item = Head(pending_queue)])
              /\ pending_queue' = Tail(pending_queue)
    /\ UNCHANGED <<is_active, albums, poisoned, cancel, worker_running, callers, nextId, scn, engine>>

\* line 235: read the cancel flag.
CheckCancel(d) ==
    /\ drains[d].pc = "check_cancel"
    /\ SetDrain(d, IF cancel
                     THEN [drains[d] EXCEPT !.pc = "cancel_drain", !.cancelSeen = TRUE,
                                            !.item = NoItem]
                     ELSE [drains[d] EXCEPT !.pc = "find_idx"])
    /\ UNCHANGED <<shared, callers, nextId, scn, engine>>

\* lines 237-241: drain the queue under its lock.
CancelDrain(d) ==
    /\ drains[d].pc = "cancel_drain"
    /\ pending_queue' = <<>>
    /\ SetDrain(d, [drains[d] EXCEPT !.pc = "cancel_mark"])
    /\ UNCHANGED <<is_active, albums, poisoned, cancel, worker_running, callers, nextId, scn, engine>>

\* (a cancel branch that marks every entry, finished ones included)
MarkCancelled_All(a) == [a EXCEPT !.status = "cancelled"]

\* lines 245-249
MarkCancelled(a) ==
    IF a.status \in Unfinished THEN [a EXCEPT !.status = "cancelled"] ELSE a

\* lines 243-254: mark every pending or downloading entry cancelled, clear
\* is_active, emit download-cancelled, break.
CancelMark(d) ==
    /\ drains[d].pc = "cancel_mark"
    /\ IF poisoned
         THEN /\ SetDrain(d, [NewDrain EXCEPT !.pc = "panicked"])
              /\ UNCHANGED <<albums, is_active>>
         ELSE /\ albums' = [i \in 1..Len(albums) |-> MarkCancelled(albums[i])]
              /\ is_active' = FALSE
              /\ SetDrain(d, LeaveLoop([drains[d] EXCEPT !.saidCancelled = TRUE]))
    /\ UNCHANGED <<poisoned, cancel, worker_running, pending_queue, callers, nextId, scn, engine>>

\* (a lookup that ignores the status of the entries)
Position_AnyStatus(as, item) ==
    LET hits == {i \in 1..Len(as) : as[i].kind = item.kind /\ as[i].key = item.key}
    IN IF hits = {} THEN 0 ELSE CHOOSE i \in hits : \A j \in hits : i <= j

\* lines 262-270: position of the first pending entry with the item's artist
\* and label; 0 stands for None.
Position(as, item) ==
    LET hits == {i \in 1..Len(as) : /\ as[i].kind = item.kind
                                    /\ as[i].key = item.key
                                    /\ as[i].status = "pending"}
    IN IF hits = {} THEN 0 ELSE CHOOSE i \in hits : \A j \in hits : i <= j

\* lines 258-283: resolve album_idx, or continue with the next item.
FindIdx(d) ==
    /\ drains[d].pc = "find_idx"
    /\ LET idx == Position(albums, drains[d].item)
       IN SetDrain(d, IF poisoned THEN [NewDrain EXCEPT !.pc = "panicked"]
                      ELSE IF idx = 0
                        THEN [drains[d] EXCEPT !.pc = "dequeue", !.item = NoItem]
                        ELSE [drains[d] EXCEPT !.pc = "mark_downloading",
                                               !.album_idx = idx,
                                               !.curId = albums[idx].id])
    /\ UNCHANGED <<shared, callers, nextId, scn, engine>>

\* An indexed write s.albums[album_idx] panics when the index is out of
\* bounds; the guard of the state mutex is dropped by the unwinding and the
\* mutex is poisoned.
InBounds(idx) == idx >= 1 /\ idx <= Len(albums)

\* lines 286-289.
MarkDownloading(d) ==
    /\ drains[d].pc = "mark_downloading"
    /\ IF poisoned \/ ~InBounds(drains[d].album_idx)
         THEN /\ poisoned' = TRUE
              /\ albums' = albums
              /\ SetDrain(d, [NewDrain EXCEPT !.pc = "panicked"])
         ELSE /\ poisoned' = poisoned
              /\ albums' = [albums EXCEPT ![drains[d].album_idx].status = "downloading"]
              /\ SetDrain(d, [drains[d] EXCEPT !.pc =
                     IF drains[d].item.kind = "album" THEN "download_album"
                                                      ELSE "download_single_song"])
    /\ UNCHANGED <<is_active, cancel, worker_running, pending_queue, callers, nextId, scn, engine>>

(* ------------------------------- tail ---------------------------------- *)
\* (a drain loop that clears the cancel signal when it ends)
WorkerDone_Resets(d) ==
    /\ drains[d].pc = "worker_done"
    /\ worker_running' = FALSE
    /\ cancel' = FALSE
    /\ SetDrain(d, [NewDrain EXCEPT !.pc = "any_pending"])
    /\ UNCHANGED <<is_active, albums, poisoned, pending_queue, callers, nextId, scn, engine>>

\* lines 372-375.
WorkerDone(d) ==
    /\ drains[d].pc = "worker_done"
    /\ worker_running' = FALSE
    /\ SetDrain(d, [NewDrain EXCEPT !.pc = "any_pending"])
    /\ UNCHANGED <<is_active, albums, poisoned, cancel, pending_queue, callers, nextId, scn, engine>>

\* lines 378-381.
AnyPending(d) ==
    /\ drains[d].pc = "any_pending"
    /\ LET any_pending == \E i \in 1..Len(albums) : albums[i].status \in Unfinished
       IN SetDrain(d, [drains[d] EXCEPT !.pc =
                 IF poisoned THEN "panicked"
                 ELSE IF any_pending THEN "done" ELSE "set_inactive"])
    /\ UNCHANGED <<shared, callers, nextId, scn, engine>>

\* lines 383-389: clear is_active and emit download-all-complete.
SetInactive(d) ==
    /\ drains[d].pc = "set_inactive"
    /\ IF poisoned
         THEN /\ SetDrain(d, [drains[d] EXCEPT !.pc = "panicked"])
              /\ is_active' = is_active
         ELSE /\ is_active' = FALSE
              /\ SetDrain(d, [drains[d] EXCEPT !.pc = "done"])
    /\ UNCHANGED <<albums, poisoned, cancel, worker_running, pending_queue, callers, nextId, scn, engine>>

(* ---------------------------- download_album --------------------------- *)
\* The item is done: back to the head of the loop, download_album's locals
\* dropped.
NextItem(rec) == [NewDrain EXCEPT !.cancelSeen = rec.cancelSeen]

\* lines 294-311 and 339-357: record the result of the item on
\* s.albums[album_idx]; an Err also emits download-error.
RecordResult(d, result) ==
    IF poisoned \/ ~InBounds(drains[d].album_idx)
      THEN /\ poisoned' = TRUE
           /\ albums' = albums
           /\ SetDrain(d, [NewDrain EXCEPT !.pc = "panicked"])
      ELSE /\ poisoned' = poisoned
           /\ albums' = [albums EXCEPT ![drains[d].album_idx] =
                 IF result = "ok"
                   THEN [@ EXCEPT !.status = "complete",
                                  !.completed_tracks =
                                      IF drains[d].item.kind = "song" THEN 1 ELSE @]
                   ELSE [@ EXCEPT !.status = "error", !.error = result]]
           /\ SetDrain(d, NextItem(drains[d]))

\* number of scoped workers, line 937
NumWorkers(total) == Min(MAX_CONCURRENT_TRACKS, total)

\* lines 886-915, Err branch: create_dir_all or fetch_tracklist fails.
DownloadAlbumFails(d) ==
    /\ drains[d].pc = "download_album"
    /\ RecordResult(d, "Failed")
    /\ UNCHANGED <<is_active, cancel, worker_running, pending_queue, callers, nextId, scn, engine>>

\* fetch_tracklist's Ok result, lines 1161-1201
fetch_tracklist(item) == [t \in 1..TrackCount(item) |-> "fetched"]

\* lines 907-915: the request's list if it is Some and not empty, else the
\* fetched one
ResolvedTracks(item) ==
    IF "tracks" \in DOMAIN item /\ item.tracks # <<>>
      THEN item.tracks
      ELSE fetch_tracklist(item)

\* lines 886-968: the directory, the cover and the track list are there;
\* record total_tracks under the state lock, fill the channel and spawn the
\* workers.
DownloadAlbumStart(d) ==
    /\ drains[d].pc = "download_album"
    /\ LET total == Len(ResolvedTracks(drains[d].item))
           idx == drains[d].album_idx
       IN IF poisoned
            THEN /\ SetDrain(d, [NewDrain EXCEPT !.pc = "panicked"])
                 /\ albums' = albums
            ELSE /\ albums' = IF InBounds(idx)
                                THEN [albums EXCEPT ![idx].total_tracks = total]
                                ELSE albums
                 /\ SetDrain(d, [drains[d] EXCEPT
                       !.pc = "join", !.total_tracks = total,
                       !.completed = 0, !.cancelled = FALSE,
                       !.tracks = [t \in 1..total |-> ChanTrack],
                       !.waiting = NumWorkers(total)])
    /\ UNCHANGED <<is_active, poisoned, cancel, worker_running, pending_queue,
                   callers, nextId, scn, engine>>

\* thread::scope returns, line 968: every worker has left its loop.
AllJoined(rec) ==
    /\ rec.waiting = 0
    /\ \A t \in 1..Len(rec.tracks) : rec.tracks[t].pc \in {"chan", "out"}

\* (a download_album that ignores the cancelled flag)
AlbumOutcome_Ok(cancelled) == "ok"

\* download_album's result, lines 970-974
AlbumOutcome(cancelled) == IF cancelled THEN "Cancelled" ELSE "ok"

\* lines 968-975 and 294-311: the scoped workers are joined and the drain
\* loop records download_album's result.
AlbumResult(d) ==
    /\ drains[d].pc = "join"
    /\ AllJoined(drains[d])
    /\ IF drains[d].wpanic
         THEN /\ SetDrain(d, [NewDrain EXCEPT !.pc = "panicked"])
              /\ UNCHANGED <<albums, poisoned>>
         ELSE RecordResult(d, AlbumOutcome(drains[d].cancelled))
    /\ UNCHANGED <<is_active, cancel, worker_running, pending_queue, callers, nextId, scn, engine>>

\* lines 338-357 with download_single_song (lines 977-1078), which touches no
\* shared state: its outcome is Ok or Err.
DownloadSingleSong(d) ==
    /\ drains[d].pc = "download_single_song"
    /\ \E result \in {"ok", "Failed"} : RecordResult(d, result)
    /\ UNCHANGED <<is_active, cancel, worker_running, pending_queue, callers, nextId, scn, engine>>

(* ------------------------ process_single_track ------------------------- *)
\* update_album_completed, lines 710-715
update_album_completed(as, idx, count) ==
    IF idx >= 1 /\ idx <= Len(as)
      THEN [as EXCEPT ![idx].completed_tracks = count] ELSE as

\* add_active_track, lines 717-732
add_active_track(as, idx, t, st) ==
    IF idx >= 1 /\ idx <= Len(as)
      THEN [as EXCEPT ![idx].active_tracks =
                          Append(@, [track_index |-> t, status |-> st])]
      ELSE as

\* lines 742-748: the first active track of that index gets the status
SetFirst(ats, t, st) ==
    LET hits == {i \in 1..Len(ats) : ats[i].track_index = t}
    IN IF hits = {} THEN ats
       ELSE LET f == CHOOSE i \in hits : \A j \in hits : i <= j
            IN [ats EXCEPT ![f].status = st]

\* update_active_track_status, lines 734-750
update_active_track_status(as, idx, t, st) ==
    IF idx >= 1 /\ idx <= Len(as)
      THEN [as EXCEPT ![idx].active_tracks = SetFirst(@, t, st)] ELSE as

\* remove_active_track, lines 752-759
remove_active_track(as, idx, t) ==
    IF idx >= 1 /\ idx <= Len(as)
      THEN [as EXCEPT ![idx].active_tracks =
                          SelectSeq(@, LAMBDA at : at.track_index # t)]
      ELSE as

\* A step of the worker holding track t that takes the state lock: the new
\* albums and the track's next position; on a poisoned lock the worker panics.
\* A track that is "out" returns its worker to recv().
Moved(rec, t, trec) ==
    [rec EXCEPT !.tracks[t] = trec,
                !.waiting = IF trec.pc = "out" THEN @ + 1 ELSE @,
                !.fetched = @ \/ (scn.hist /\ trec.pc = "search")]

WorkerState(d, t, newAlbums, trec) ==
    IF poisoned
      THEN /\ albums' = albums
           /\ SetDrain(d, [drains[d] EXCEPT !.tracks[t] = OutTrack, !.wpanic = TRUE])
      ELSE /\ albums' = newAlbums
           /\ SetDrain(d, Moved(drains[d], t, trec))

WorkerFrame == UNCHANGED <<is_active, poisoned, cancel, worker_running,
                           pending_queue, callers, nextId, scn, engine>>

TracksOf(d) == 1..Len(drains[d].tracks)

\* the head of the channel; 0 when it is drained
ChanHead(rec) ==
    LET q == {t \in 1..Len(rec.tracks) : rec.tracks[t].pc = "chan"}
    IN IF q = {} THEN 0 ELSE CHOOSE t \in q : \A u \in q : t <= u

\* lines 952-958: a worker receives the next track; it leaves its loop when
\* the channel is drained, or when cancelled or the cancel flag is set.
WRecv(d) ==
    LET rec == drains[d]
        t == ChanHead(rec)
    IN
    /\ rec.pc = "join"
    /\ rec.waiting > 0
    /\ IF t = 0
         THEN SetDrain(d, [rec EXCEPT !.waiting = @ - 1])
         ELSE IF rec.cancelled \/ cancel
           THEN SetDrain(d, [rec EXCEPT !.waiting = @ - 1, !.tracks[t] = OutTrack,
                                        !.cancelled = TRUE, !.cancelSeen = TRUE])
           ELSE SetDrain(d, [rec EXCEPT !.waiting = @ - 1, !.tracks[t].pc = "start"])
    /\ UNCHANGED <<shared, callers, nextId, scn, engine>>

\* lines 786-787: the file exists: completed.fetch_add(1).
WSkip(d, t) ==
    LET rec == drains[d] IN
    /\ rec.tracks[t].pc = "start"
    /\ SetDrain(d, [rec EXCEPT !.completed = @ + 1,
                               !.tracks[t] = [pc |-> "write_count",
                                              new_count |-> rec.completed + 1]])
    /\ UNCHANGED <<shared, callers, nextId, scn, engine>>

\* lines 796-799: register the track as searching.
WAddActive(d, t) ==
    LET rec == drains[d] IN
    /\ rec.tracks[t].pc = "start"
    /\ WorkerState(d, t, add_active_track(albums, rec.album_idx, t, "searching"),
                   [rec.tracks[t] EXCEPT !.pc = "search"])
    /\ WorkerFrame

\* lines 801-809 and 827-836: the search or the download failed.
WFail(d, t) ==
    LET rec == drains[d] IN
    /\ rec.tracks[t].pc \in {"search", "download"}
    /\ WorkerState(d, t, remove_active_track(albums, rec.album_idx, t), OutTrack)
    /\ WorkerFrame

\* lines 813-814 and 839-840: the call succeeded; checkpoint on the cancel flag.
WCheckpoint(d, t) ==
    LET rec == drains[d] IN
    /\ rec.tracks[t].pc \in {"search", "download"}
    /\ IF cancel
         THEN SetDrain(d, [rec EXCEPT !.cancelled = TRUE, !.cancelSeen = TRUE,
                                      !.tracks[t].pc = "cancel_remove"])
         ELSE SetDrain(d, [rec EXCEPT !.tracks[t].pc =
                   IF rec.tracks[t].pc = "search" THEN "set_downloading"
                                                  ELSE "set_tagging"])
    /\ UNCHANGED <<shared, callers, nextId, scn, engine>>

\* lines 815-816 and 841-842: leave the track at the checkpoint.
WCancelRemove(d, t) ==
    LET rec == drains[d] IN
    /\ rec.tracks[t].pc = "cancel_remove"
    /\ WorkerState(d, t, remove_active_track(albums, rec.album_idx, t), OutTrack)
    /\ WorkerFrame

\* lines 820 and 846: the next stage of the track.
WSetStatus(d, t) ==
    LET rec == drains[d] IN
    /\ rec.tracks[t].pc \in {"set_downloading", "set_tagging"}
    /\ WorkerState(d, t,
          update_active_track_status(albums, rec.album_idx, t,
              IF rec.tracks[t].pc = "set_downloading" THEN "downloading"
                                                      ELSE "tagging"),
          [rec.tracks[t] EXCEPT !.pc =
              IF rec.tracks[t].pc = "set_downloading" THEN "download" ELSE "finish"])
    /\ WorkerFrame

\* lines 851-864: tag the file, then completed.fetch_add(1).
WFinish(d, t) ==
    LET rec == drains[d] IN
    /\ rec.tracks[t].pc = "finish"
    /\ SetDrain(d, [rec EXCEPT !.completed = @ + 1,
                               !.tracks[t] = [pc |-> "remove_done",
                                              new_count |-> rec.completed + 1]])
    /\ UNCHANGED <<shared, callers, nextId, scn, engine>>

\* line 865
WRemoveDone(d, t) ==
    LET rec == drains[d] IN
    /\ rec.tracks[t].pc = "remove_done"
    /\ WorkerState(d, t, remove_active_track(albums, rec.album_idx, t),
                   [rec.tracks[t] EXCEPT !.pc = "write_count"])
    /\ WorkerFrame

\* lines 788 and 866: write the count this worker got from fetch_add.
WWriteCount(d, t) ==
    LET rec == drains[d] IN
    /\ rec.tracks[t].pc = "write_count"
    /\ WorkerState(d, t,
          update_album_completed(albums, rec.album_idx, rec.tracks[t].new_count),
          OutTrack)
    /\ WorkerFrame

(* ------------------------------- Next ---------------------------------- *)
Next ==
    \/ \E c \in Callers : \E req \in {LongAlbum, ShortAlbum, Song, SongNoId,
                                        ListedAlbum, EmptyListAlbum} : EnqueueState(c, req)
    \/ \E c \in Callers : EnqueueQueue(c)
    \/ \E c \in Callers : EnsureWorkerGate(c)
    \/ \E c \in Callers : EnsureWorkerSpawn(c)
    \/ \E c \in Callers : Cancel(c)
    \/ \E c \in Callers : ClearFinished(c)
    \/ \E d \in Drains : Dequeue(d)
    \/ \E d \in Drains : CheckCancel(d)
    \/ \E d \in Drains : CancelDrain(d)
    \/ \E d \in Drains : CancelMark(d)
    \/ \E d \in Drains : FindIdx(d)
    \/ \E d \in Drains : MarkDownloading(d)
    \/ \E d \in Drains : DownloadAlbumFails(d)
    \/ \E d \in Drains : DownloadAlbumStart(d)
    \/ \E d \in Drains : AlbumResult(d)
    \/ \E d \in Drains : DownloadSingleSong(d)
    \/ \E d \in Drains : WorkerDone(d)
    \/ \E d \in Drains : AnyPending(d)
    \/ \E d \in Drains : SetInactive(d)
    \/ \E d \in Drains : WRecv(d)
    \/ \E d \in Drains : \E t \in TracksOf(d) : WSkip(d, t)
    \/ \E d \in Drains : \E t \in TracksOf(d) : WAddActive(d, t)
    \/ \E d \in Drains : \E t \in TracksOf(d) : WFail(d, t)
    \/ \E d \in Drains : \E t \in TracksOf(d) : WCheckpoint(d, t)
    \/ \E d \in Drains : \E t \in TracksOf(d) : WCancelRemove(d, t)
    \/ \E d \in Drains : \E t \in TracksOf(d) : WSetStatus(d, t)
    \/ \E d \in Drains : \E t \in TracksOf(d) : WFinish(d, t)
    \/ \E d \in Drains : \E t \in TracksOf(d) : WRemoveDone(d, t)
    \/ \E d \in Drains : \E t \in TracksOf(d) : WWriteCount(d, t)

Spec == Init /\ [][Next]_vars

SpecPair == InitPair /\ [][Next]_vars

SpecHist == InitHist /\ [][Next]_vars

SpecShift == InitShift /\ [][Next]_vars

SpecTracks == InitTracks /\ [][Next]_vars

SpecRuns == InitRuns /\ [][Next]_vars

SpecSongs == InitSongs /\ [][Next]_vars

SpecLong == InitLong /\ [][Next]_vars

SpecLists == InitLists /\ [][Next]_vars

(* ---------------------------- audio engine ----------------------------- *)
\* no downloader command is invoked
InitAudio ==
    StartWith(1, [script |-> <<>>, tracks |-> 0, hist |-> FALSE, cancels |-> FALSE])

Handles == DOMAIN handles

Tracks == 1..NumTracks

\* cmd_tx.send(cmd), with one more call of the handle counted
Send(cmd) ==
    /\ calls.commands < MaxCalls
    /\ cmd_rx' = Append(cmd_rx, cmd)
    /\ calls' = [calls EXCEPT !.commands = @ + 1]

HandleFrame == UNCHANGED <<downloader, state, position, sink, current_track_id>>

\* AudioEngineHandle::play_track, lines 69-77.
Handle_play_track(h, track) ==
    /\ handles[h].pc = "idle"
    /\ Send([cmd |-> "PlayTrack", track |-> track])
    /\ UNCHANGED handles
    /\ HandleFrame

\* AudioEngineHandle::pause, lines 79-81.
Handle_pause(h) ==
    /\ handles[h].pc = "idle"
    /\ Send([cmd |-> "Pause"])
    /\ UNCHANGED handles
    /\ HandleFrame

\* AudioEngineHandle::resume, lines 83-85.
Handle_resume(h) ==
    /\ handles[h].pc = "idle"
    /\ Send([cmd |-> "Resume"])
    /\ UNCHANGED handles
    /\ HandleFrame

\* AudioEngineHandle::stop, lines 95-97.
Handle_stop(h) ==
    /\ handles[h].pc = "idle"
    /\ Send([cmd |-> "Stop"])
    /\ UNCHANGED handles
    /\ HandleFrame

\* toggle_play, line 88: read is_playing under the read lock.
toggle_play_read(h) ==
    /\ handles[h].pc = "idle"
    /\ calls.commands < MaxCalls
    /\ handles' = [handles EXCEPT ![h] = [pc |-> "toggle_play", read |-> state.is_playing]]
    /\ UNCHANGED <<cmd_rx, calls>>
    /\ HandleFrame

\* toggle_play, lines 89-91: pause() if it read playing, else resume().
toggle_play_send(h) ==
    /\ handles[h].pc = "toggle_play"
    /\ Send([cmd |-> IF handles[h].read THEN "Pause" ELSE "Resume"])
    /\ handles' = [handles EXCEPT ![h] = [pc |-> "idle", read |-> FALSE]]
    /\ HandleFrame

\* toggle_mute, line 108: read is_muted under the read lock.
toggle_mute_read(h) ==
    /\ handles[h].pc = "idle"
    /\ calls.toggles < MaxToggles
    /\ handles' = [handles EXCEPT ![h] = [pc |-> "toggle_mute", read |-> state.is_muted]]
    /\ calls' = [calls EXCEPT !.toggles = @ + 1]
    /\ UNCHANGED cmd_rx
    /\ HandleFrame

\* the value toggle_mute sends, line 109
Toggled(is_muted) == ~is_muted

\* toggle_mute, line 109: send SetMuted of the negated value.
toggle_mute_send(h) ==
    /\ handles[h].pc = "toggle_mute"
    /\ cmd_rx' = Append(cmd_rx, [cmd |-> "SetMuted", muted |-> Toggled(handles[h].read)])
    /\ handles' = [handles EXCEPT ![h] = [pc |-> "idle", read |-> FALSE]]
    /\ UNCHANGED calls
    /\ HandleFrame

\* PositionTracker, lines 136-186 (the elapsed time is left out).
start(p) == [p EXCEPT !.play_start = "Some"]

position_pause(p) == [p EXCEPT !.play_start = "None"]

reset(p) == [p EXCEPT !.play_start = "None"]

is_playing(p) == p.play_start = "Some"

\* Sink::empty(): no sound is queued.
empty(s) == s.queued = 0

\* the sink is producing sound
Audible == ~empty(sink) /\ ~sink.paused

\* cmd_rx.recv_timeout returns Ok(cmd), line 243: the head of the channel.
Receives(name) ==
    /\ cmd_rx # <<>>
    /\ Head(cmd_rx).cmd = name
    /\ cmd_rx' = Tail(cmd_rx)

ThreadFrame == UNCHANGED <<downloader, handles, calls>>

\* play_track, lines 313-373; loaded: load_local_file / load_http_stream
\* returned Ok, and then it has replaced the sound of the sink (lines 384-386,
\* 409-411); on Err it returned before touching the sink.
play_track(loaded) ==
    /\ Receives("PlayTrack")
    /\ LET track == Head(cmd_rx).track
       IN IF loaded
            THEN /\ sink' = [queued |-> track, paused |-> FALSE]
                 /\ position' = start(reset(position))
                 /\ current_track_id' = track
                 /\ state' = [state EXCEPT !.error = FALSE, !.current_track = track,
                                           !.is_loading = FALSE, !.is_playing = TRUE]
            ELSE /\ current_track_id' = 0
                 /\ state' = [state EXCEPT !.current_track = track, !.is_loading = FALSE,
                                           !.is_playing = FALSE, !.error = TRUE]
                 /\ UNCHANGED <<sink, position>>
    /\ ThreadFrame

\* pause, lines 415-430.
pause ==
    /\ Receives("Pause")
    /\ IF ~state.is_playing
         THEN UNCHANGED <<sink, position, state>>
         ELSE /\ sink' = [sink EXCEPT !.paused = TRUE]
              /\ position' = position_pause(position)
              /\ state' = [state EXCEPT !.is_playing = FALSE]
    /\ UNCHANGED current_track_id
    /\ ThreadFrame

\* resume, lines 432-451.
resume ==
    /\ Receives("Resume")
    /\ IF empty(sink) \/ state.is_playing
         THEN UNCHANGED <<sink, position, state>>
         ELSE /\ sink' = [sink EXCEPT !.paused = FALSE]
              /\ position' = start(position)
              /\ state' = [state EXCEPT !.is_playing = TRUE]
    /\ UNCHANGED current_track_id
    /\ ThreadFrame

\* stop, lines 453-466.
stop ==
    /\ Receives("Stop")
    /\ sink' = [sink EXCEPT !.queued = 0]
    /\ position' = reset(position)
    /\ current_track_id' = 0
    /\ state' = [state EXCEPT !.is_playing = FALSE, !.current_track = 0]
    /\ ThreadFrame

\* set_muted, lines 503-510.
set_muted ==
    /\ Receives("SetMuted")
    /\ state' = [state EXCEPT !.is_muted = Head(cmd_rx).muted]
    /\ UNCHANGED <<sink, position, current_track_id>>
    /\ ThreadFrame

\* on_track_ended, lines 278-295.
on_track_ended ==
    /\ current_track_id' = 0
    /\ position' = reset(position)
    /\ state' = [state EXCEPT !.is_playing = FALSE]

\* tick, lines 257-275, run when recv_timeout times out on an empty channel
\* (line 244); the position update changes nothing modelled here.
tick ==
    /\ cmd_rx = <<>>
    /\ IF empty(sink) /\ is_playing(position)
         THEN on_track_ended
         ELSE UNCHANGED <<current_track_id, position, state>>
    /\ UNCHANGED <<sink, cmd_rx>>
    /\ ThreadFrame

\* The sink plays its sound to the end; Sink::empty() then returns true
\* (read by tick, line 259, and resume, line 434).
SoundEnds ==
    /\ Audible
    /\ sink' = [sink EXCEPT !.queued = 0]
    /\ UNCHANGED <<state, position, current_track_id, cmd_rx>>
    /\ ThreadFrame

\* one handle_command or tick of the audio thread
AudioThreadStep ==
    \/ \E loaded \in BOOLEAN : play_track(loaded)
    \/ pause
    \/ resume
    \/ stop
    \/ set_muted
    \/ tick

NextAudio ==
    \/ \E h \in Handles : \E track \in Tracks : Handle_play_track(h, track)
    \/ \E h \in Handles : Handle_pause(h)
    \/ \E h \in Handles : Handle_resume(h)
    \/ \E h \in Handles : Handle_stop(h)
    \/ \E h \in Handles : toggle_play_read(h)
    \/ \E h \in Handles : toggle_play_send(h)
    \/ \E h \in Handles : toggle_mute_read(h)
    \/ \E h \in Handles : toggle_mute_send(h)
    \/ \E loaded \in BOOLEAN : play_track(loaded)
    \/ pause
    \/ resume
    \/ stop
    \/ set_muted
    \/ tick
    \/ SoundEnds

SpecAudio == InitAudio /\ [][NextAudio]_vars

(* ======================================================================= *)
(* Properties                                                              *)
(* ======================================================================= *)
Idle == \A c \in Callers : callers[c].pc = "idle"

Entries == 1..Len(albums)

\* the drain thread is between resolving album_idx and recording the result
Processing(d) ==
    drains[d].pc \in {"mark_downloading", "download_album", "join",
                      "download_single_song"}

\* album_idx still designates the entry it was resolved to
IndexFresh(d) ==
    /\ InBounds(drains[d].album_idx)
    /\ albums[drains[d].album_idx].id = drains[d].curId

(* ------------------------------- C1 ------------------------------------ *)
\* C1: at most one drain loop executes at any time.  A thread counts from the
\* moment ensure_worker has decided to spawn it (worker_running set, thread
\* not yet started) until it leaves the loop by break; an enqueue whose
\* ensure_worker finds worker_running set spawns nothing.
C1_SingleDrainLoop ==
    Cardinality({d \in Drains : InLoop(d)})
      + Cardinality({c \in Callers : callers[c].pc = "spawn"}) <= 1

\* An item was enqueued while the only drain thread ever spawned was busy
\* with another item, the call has returned and the item waits in the queue.
C1_Witness ==
    /\ Idle
    /\ Len(drains) = 1
    /\ Processing(1)
    /\ nextId >= 2
    /\ pending_queue # <<>>

(* ------------------------------- C2 ------------------------------------ *)
\* C2: every item pushed to the pending queue is eventually dequeued without
\* a further enqueue call.  As a property of final states: once every command
\* has returned and every drain thread has run to its end (no panic, and no
\* cancel requested since the last loop started), no item is left in the
\* pending queue.
C2_NothingStranded ==
    (/\ Idle
     /\ ~poisoned
     /\ ~cancel
     /\ \A d \in Drains : drains[d].pc = "done")
    => pending_queue = <<>>

(* ------------------------------- C3 ------------------------------------ *)
\* C3: an entry whose item has N tracks never has more than min(3, N)
\* active tracks.
C3_BoundedParallelism ==
    \A i \in Entries :
        Len(albums[i].active_tracks)
          <= Min(MAX_CONCURRENT_TRACKS, TrackCount(albums[i]))

(* ------------------------------- C4 ------------------------------------ *)
\* C4: if A was enqueued before B, then B's entry is pending for as long as
\* A's entry has no terminal status.  (An entry that is no longer in albums
\* was removed by clear_finished, which removes terminal entries only.)
C4_OrderPreserved ==
    \A i, j \in Entries :
        (albums[i].id < albums[j].id /\ albums[j].status # "pending")
        => albums[i].status \in Terminal

(* ------------------------------- C5 ------------------------------------ *)
\* C5: an entry that was pending when downloader_cancel was called never gets
\* status complete or error.
C5_PendingCancelled ==
    \A i \in Entries :
        albums[i].cancelReq => albums[i].status \notin {"complete", "error"}

(* ------------------------------- C6 ------------------------------------ *)
\* C6: when download_album returns with its workers having observed the
\* cancellation, the step that records the result leaves the entry of that
\* album with status cancelled and without an error message.
C6_CancelledNotError ==
    [][\A d \in Drains :
          (/\ drains[d].pc = "join"
           /\ drains[d].cancelled
           /\ drains'[d].pc = "dequeue")
          => \A i \in 1..Len(albums') :
                albums'[i].id = drains[d].curId
                => albums'[i].status = "cancelled" /\ albums'[i].error = "none"]_vars

(* ------------------------------- C7 ------------------------------------ *)
\* download-error is emitted by the step that records an Err result.
EmitsDownloadError(d) ==
    /\ Processing(d)
    /\ drains'[d].pc = "dequeue"
    /\ albums'[drains[d].album_idx].status = "error"

\* C7: a run that observed the cancel flag emits no download-error for the
\* album its workers abandoned, and has emitted download-cancelled by the time
\* it leaves the loop.
C7_CancelNotified ==
    [][\A d \in Drains :
          /\ (drains[d].pc = "join" /\ drains[d].cancelled) => ~EmitsDownloadError(d)
          /\ (drains'[d].pc = "worker_done" /\ drains'[d].cancelSeen)
                => drains'[d].saidCancelled]_vars

(* ------------------------------- C8 ------------------------------------ *)
\* C8: from the moment the drain loop resolves album_idx until it records the
\* item's result, album_idx is the index of the entry it was resolved to.
C8_IndexStable == \A d \in Drains : Processing(d) => IndexFresh(d)

(* ------------------------------- C9 ------------------------------------ *)
\* the status the entry with enqueue number id has in albums (s = albums or
\* albums'); "gone" when the entry was removed
StatusIn(s, id) ==
    LET hits == {i \in 1..Len(s) : s[i].id = id}
    IN IF hits = {} THEN "gone" ELSE s[CHOOSE i \in hits : TRUE].status

\* C9 as claimed: every change of an entry's status is pending -> downloading
\* or downloading -> {complete, error, cancelled}.
C9_StrictEdges ==
    [][\A id \in 1..nextId :
          LET a == StatusIn(albums, id)
              b == StatusIn(albums', id)
          IN (a # "gone" /\ b # "gone" /\ a # b)
             => \/ a = "pending" /\ b = "downloading"
                \/ a = "downloading" /\ b \in Terminal]_vars

\* some drain thread is about to write through an album_idx that designates
\* the entry id although it was resolved to another entry
StaleWriter(id) ==
    \E d \in Drains :
        /\ Processing(d)
        /\ InBounds(drains[d].album_idx)
        /\ albums[drains[d].album_idx].id = id
        /\ drains[d].curId # id

\* C9 amended: a status changes only from pending to downloading, from
\* pending to cancelled (the cancel branch), from downloading to a terminal
\* status, or from pending to complete or error by a write through a stale
\* album_idx; no terminal status ever changes and no entry returns to
\* pending.
C9_Edges ==
    [][\A id \in 1..nextId :
          LET a == StatusIn(albums, id)
              b == StatusIn(albums', id)
          IN (a # "gone" /\ b # "gone" /\ a # b)
             => \/ a = "pending" /\ b \in {"downloading", "cancelled"}
                \/ a = "downloading" /\ b \in Terminal
                \/ a = "pending" /\ b \in {"complete", "error"} /\ StaleWriter(id)]_vars

\* The cancel branch has marked entries cancelled while another entry had
\* already finished: the finished one kept its status.
C9_Witness ==
    \E i, j \in Entries :
        /\ albums[i].status = "cancelled"
        /\ albums[j].status \in {"complete", "error"}

(* ------------------------------- C10 ----------------------------------- *)
\* C10: when the workers of an album are all joined, the entry's
\* completed_tracks equals the number of tracks that reached done (the value
\* of the atomic counter completed, which each done track increments once).
\* Stated for an album whose album_idx still designates its entry.
C10_CompletedAccurate ==
    \A d \in Drains :
        (/\ drains[d].pc = "join"
         /\ AllJoined(drains[d])
         /\ ~drains[d].wpanic
         /\ IndexFresh(d))
        => albums[drains[d].album_idx].completed_tracks = drains[d].completed

(* ------------------------------- C11 ----------------------------------- *)
\* C11: if every track file of an album already exists (every track took the
\* skip path of line 786: nothing was fetched, nothing cancelled), then when
\* the workers are joined the entry's completed_tracks equals its
\* total_tracks and its active_tracks is empty; the album's result is Ok.
C11_IdempotentSkip ==
    \A d \in Drains :
        (/\ scn.hist
         /\ drains[d].pc = "join"
         /\ AllJoined(drains[d])
         /\ ~drains[d].wpanic
         /\ ~drains[d].cancelled
         /\ ~drains[d].fetched
         /\ IndexFresh(d))
        => /\ AlbumOutcome(drains[d].cancelled) = "ok"
           /\ albums[drains[d].album_idx].active_tracks = <<>>
           /\ albums[drains[d].album_idx].completed_tracks
                 = albums[drains[d].album_idx].total_tracks

(* ------------------------------- C12 ----------------------------------- *)
\* C12: downloader_clear_finished is idempotent: applied to the albums and
\* is_active that a first call leaves, a second call leaves the same albums
\* and the same is_active (the call never touches the pending queue); and
\* whenever a call leaves albums empty, is_active is false afterwards.
C12_ClearIdempotent ==
    LET albums1 == Retained(albums)
        active1 == ClearedActive(albums1, is_active)
        albums2 == Retained(albums1)
        active2 == ClearedActive(albums2, active1)
    IN /\ albums2 = albums1
       /\ active2 = active1
       /\ albums1 = <<>> => ~active1

\* A call has removed an entry, and a further finished entry stands between
\* unfinished ones: the next call removes it, the one after has nothing to do.
C12_Witness ==
    /\ Idle
    /\ Len(albums) < nextId
    /\ \E i, j \in Entries : /\ i < j
                             /\ albums[i].status \in Terminal
                             /\ albums[j].status \in Unfinished

(* ------------------------------- C13 ----------------------------------- *)
\* C13: a step that shortens albums (only downloader_clear_finished does)
\* removes exactly the entries whose status is complete, error or cancelled,
\* keeps the pending and downloading entries in their order with every field
\* unchanged, leaves pending_queue, cancel and worker_running unchanged, and
\* leaves is_active unchanged unless the resulting list is empty.
C13_ClearFrame ==
    [][Len(albums') < Len(albums) =>
         LET keptIdx == {i \in 1..Len(albums) : albums[i].status \notin Terminal}
             Rank(i) == Cardinality({j \in keptIdx : j <= i})
         IN /\ Len(albums') = Cardinality(keptIdx)
            /\ \A i \in keptIdx : albums'[Rank(i)] = albums[i]
            /\ UNCHANGED <<pending_queue, cancel, worker_running>>
            /\ albums' # <<>> => is_active' = is_active
            /\ albums' = <<>> => ~is_active']_vars

\* A call has removed a finished entry and kept an unfinished one while the
\* queue still holds an item and the display is still active.
C13_Witness ==
    /\ Idle
    /\ Len(albums) < nextId
    /\ albums # <<>>
    /\ \A i \in Entries : albums[i].status \in Unfinished
    /\ pending_queue # <<>>
    /\ is_active

(* ------------------------------- C14 ----------------------------------- *)
\* the drain thread d takes the state lock and scans the entries of albums
\* (the cancel branch, the index lookup, the any_pending test)
ScansAlbums(d) ==
    /\ drains[d].pc \in {"cancel_mark", "find_idx", "any_pending"}
    /\ drains'[d].pc # drains[d].pc

\* a call has pushed its display entries and not yet its queue items
HalfEnqueued == \E c \in Callers : callers[c].pc = "enq_queue"

\* the items of the pending queue are in the order of their display entries
\* (the enqueue number is the order of the entries in albums)
QueueInEntryOrder(q) ==
    \A i, j \in 1..Len(q) : i < j => q[i].id < q[j].id

\* C14: enqueue is atomic: the items of the pending queue are always in the
\* order of their display entries, and no drain thread scans albums while a
\* call has pushed its display entries and not yet its queue items.
C14_EnqueueAtomic ==
    [][/\ QueueInEntryOrder(pending_queue')
       /\ \A d \in Drains : ScansAlbums(d) => ~HalfEnqueued]_vars

(* ------------------------------- C15 ----------------------------------- *)
\* download_album returns Err before it starts its workers (create_dir_all
\* or fetch_tracklist failed) and the drain thread d handles that result; the
\* state mutex is not poisoned beforehand
AlbumFailureHandled(d) ==
    /\ drains[d].pc = "download_album"
    /\ ~poisoned
    /\ drains'[d].pc \notin {"download_album", "join"}

\* C15: when an album fails, its entry gets status error with an error
\* message and the drain loop goes back to dequeue the next item.
C15_FailureContinues ==
    [][\A d \in Drains :
          AlbumFailureHandled(d)
          => /\ drains'[d].pc = "dequeue"
             /\ \E i \in 1..Len(albums') :
                   /\ albums'[i].id = drains[d].curId
                   /\ albums'[i].status = "error"
                   /\ albums'[i].error # "none"]_vars

(* ------------------------------- C16 ----------------------------------- *)
\* every command has returned and every drain thread spawned has run to its
\* end (none panicked)
Quiescent ==
    /\ Idle
    /\ drains # <<>>
    /\ \A d \in Drains : drains[d].pc = "done"

\* C16: in a scenario where downloader_cancel is never invoked, once every
\* command has returned and every drain thread has run to its end, every
\* entry of albums has a terminal status and is_active is false.
C16_RunCompletes ==
    (~scn.cancels /\ Quiescent)
    => /\ \A i \in Entries : albums[i].status \in Terminal
       /\ ~is_active

(* ------------------------------- C17 ----------------------------------- *)
\* a worker of the drain thread d goes past a checkpoint: it takes a track
\* from the channel into process_single_track, or goes on from a search to
\* the download, or from a download to the tagging
PassesCheckpoint(d) ==
    \E t \in TracksOf(d) :
        \/ drains[d].tracks[t].pc = "chan" /\ drains'[d].tracks[t].pc = "start"
        \/ drains[d].tracks[t].pc = "search"
              /\ drains'[d].tracks[t].pc = "set_downloading"
        \/ drains[d].tracks[t].pc = "download"
              /\ drains'[d].tracks[t].pc = "set_tagging"

\* the drain thread d has marked a song downloading and goes on to
\* download_single_song (download_track, fetch_cover, tag_track)
StartsSong(d) ==
    /\ drains[d].pc = "mark_downloading"
    /\ drains[d].item.kind = "song"
    /\ drains'[d].pc = "download_single_song"

\* C17: with the cancel signal true, no track worker goes past a checkpoint
\* (it starts no new track and issues no further call after a search or a
\* download), and the drain loop does not start the calls of the single-song
\* path.
C17_NoCallsAfterCancel ==
    [][\A d \in Drains :
          cancel => (~PassesCheckpoint(d) /\ ~StartsSong(d))]_vars

(* ------------------------------- C18 ----------------------------------- *)
\* a call of ensure_worker has marked the loop running (line 212) and has not
\* yet reset the cancel signal (line 216)
ResetPending == \E c \in Callers : callers[c].pc = "spawn"

\* C18: a cancel signal set while a drain loop is marked running is not
\* overwritten by the reset of ensure_worker: the signal is never set
\* between the marking of line 212 and the unconditional reset of line 216,
\* which would erase it before the run reads it.
C18_CancelNotLost ==
    [][(ResetPending /\ worker_running) => ~(~cancel /\ cancel')]_vars

(* ------------------------------- C19 ----------------------------------- *)
\* C19: when the workers of an album are joined without any cancellation and
\* some track failed (fewer tracks reached done than the album has), the
\* album's result is Ok, its entry carries no error message, and the entry's
\* completed_tracks is the number of tracks that succeeded.
C19_PartialComplete ==
    \A d \in Drains :
        (/\ drains[d].pc = "join"
         /\ AllJoined(drains[d])
         /\ ~drains[d].wpanic
         /\ ~drains[d].cancelled
         /\ drains[d].completed < drains[d].total_tracks
         /\ IndexFresh(d))
        => /\ AlbumOutcome(drains[d].cancelled) = "ok"
           /\ albums[drains[d].album_idx].error = "none"
           /\ albums[drains[d].album_idx].completed_tracks = drains[d].completed

(* ------------------------------- C20 ----------------------------------- *)
\* C20: the step of a call that pushes its queue items pushes as many items
\* as the call has appended display entries (one per request).
C20_EntriesMatchItems ==
    [][\A c \in Callers :
          (callers[c].pc = "enq_queue" /\ callers'[c].pc # "enq_queue")
          => Len(pending_queue') = Len(pending_queue) + Len(callers[c].reqs)]_vars

(* ------------------------------- C21 ----------------------------------- *)
\* the caller c is in downloader_start (its requests are albums)
InStart(c, rec) == rec.reqs # <<>> /\ \A i \in 1..Len(rec.reqs) : rec.reqs[i].kind = "album"

\* an entry of albums shows the request req
Shows(a, req) == a.kind = req.kind /\ a.key = req.key

\* C21 as claimed: a call of downloader_start with a request that albums
\* already shows leaves albums as it is.
C21_StartIdempotent ==
    [][\A c \in Callers :
          (/\ callers[c].pc = "idle"
           /\ callers'[c].pc = "enq_queue"
           /\ InStart(c, callers'[c])
           /\ \E i \in Entries : Shows(albums[i], callers'[c].reqs[1]))
          => albums' = albums]_vars

\* C21 amended: every call of downloader_start appends: its state block adds
\* one pending entry per request after the entries already there and sets
\* is_active; its queue block adds one queue item per request after the
\* items already there; its ensure_worker goes on to spawn a drain thread
\* exactly when worker_running is false, and leaves worker_running true.
C21_StartAppends ==
    [][\A c \in Callers :
          /\ (callers[c].pc = "idle" /\ callers'[c].pc = "enq_queue"
                 /\ InStart(c, callers'[c]))
             => LET reqs == callers'[c].reqs
                    n == Len(albums)
                IN /\ Len(albums') = n + Len(reqs)
                   /\ SubSeq(albums', 1, n) = albums
                   /\ \A i \in 1..Len(reqs) :
                         /\ Shows(albums'[n + i], reqs[i])
                         /\ albums'[n + i].status = "pending"
                   /\ is_active'
                   /\ pending_queue' = pending_queue
          /\ (callers[c].pc = "enq_queue" /\ callers'[c].pc # "enq_queue"
                 /\ InStart(c, callers[c]))
             => LET reqs == callers[c].reqs
                    n == Len(pending_queue)
                IN /\ Len(pending_queue') = n + Len(reqs)
                   /\ SubSeq(pending_queue', 1, n) = pending_queue
                   /\ \A i \in 1..Len(reqs) : Shows(pending_queue'[n + i], reqs[i])
                   /\ albums' = albums
          /\ (callers[c].pc = "ensure_worker" /\ callers'[c].pc # "ensure_worker")
             => /\ (callers'[c].pc = "spawn") <=> ~worker_running
                /\ worker_running'
                /\ drains' = drains
          /\ (callers[c].pc = "spawn" /\ callers'[c].pc # "spawn")
             => Len(drains') = Len(drains) + 1]_vars

\* The same album was enqueued twice: albums shows it twice and the pending
\* queue holds it twice.
C21_Witness ==
    /\ \E i, j \in Entries :
          i < j /\ albums[i].kind = "album" /\ Shows(albums[j], albums[i])
    /\ \E i, j \in 1..Len(pending_queue) :
          /\ i < j
          /\ pending_queue[i].kind = "album"
          /\ Shows(pending_queue[j], pending_queue[i])

(* ------------------------------- C22 ----------------------------------- *)
\* the drain thread d takes the state lock and executes an indexed write
\* s.albums[album_idx] (lines 288, 296, 300-301, 341-342, 346-347)
IndexedWrite(d) ==
    /\ ~poisoned
    /\ \/ /\ drains[d].pc \in {"mark_downloading", "download_single_song"}
          /\ drains'[d].pc # drains[d].pc
       \/ /\ drains[d].pc = "download_album"
          /\ drains'[d].pc \notin {"download_album", "join"}
       \/ /\ drains[d].pc = "join"
          /\ ~drains[d].wpanic
          /\ drains'[d].pc # "join"

\* C22: at every indexed write of the drain loop the cached album_idx is in
\* bounds.
C22_IndexInBounds ==
    [][\A d \in Drains : IndexedWrite(d) => InBounds(drains[d].album_idx)]_vars

(* ------------------------------- C23 ----------------------------------- *)
Downloading == {i \in Entries : albums[i].status = "downloading"}

\* C23: at most one album entry has status downloading at any time.
C23_OneDownloading == Cardinality(Downloading) <= 1

(* ------------------------------- C24 ----------------------------------- *)
\* the drain thread d leaves the cancel branch by the break of line 254
ExitsCancelBranch(d) ==
    drains[d].pc = "cancel_mark" /\ drains'[d].pc = "worker_done"

\* C24: when the drain loop leaves the cancel branch, the pending queue is
\* empty, no entry is pending or downloading, is_active is false,
\* download-cancelled has been emitted and the loop has terminated, whatever
\* an enqueue call does meanwhile.
C24_CancelExit ==
    [][\A d \in Drains :
          ExitsCancelBranch(d)
             => /\ pending_queue' = <<>>
                /\ \A i \in 1..Len(albums') : albums'[i].status \notin Unfinished
                /\ ~is_active'
                /\ drains'[d].saidCancelled
                /\ drains'[d].pc \notin LoopPcs]_vars

(* ------------------------------- C25 ----------------------------------- *)
\* C25: every item in the pending queue has a display entry that is still
\* pending (no queued item's entry is complete, error or cancelled).
C25_QueuedArePending ==
    \A k \in 1..Len(pending_queue) : StatusIn(albums, pending_queue[k].id) = "pending"

(* ------------------------------- C26 ----------------------------------- *)
\* C26: whenever some entry is pending or downloading, is_active is true.
C26_ActiveWhileUnfinished ==
    (\E i \in Entries : albums[i].status \in Unfinished) => is_active

(* ------------------------------- C27 ----------------------------------- *)
\* C27: every entry with a terminal status has an empty active_tracks.
C27_TerminalNoActive ==
    \A i \in Entries : albums[i].status \in Terminal => albums[i].active_tracks = <<>>

(* ------------------------------- C28 ----------------------------------- *)
\* a track worker of download_album reads the cancel signal as set: on
\* receiving a track (line 954) or at a checkpoint of process_single_track
\* (lines 813 and 839)
ObservesCancel(d) ==
    /\ cancel
    /\ \E t \in TracksOf(d) :
          \/ /\ drains[d].tracks[t].pc = "chan"
             /\ ~drains[d].cancelled
             /\ drains'[d].tracks[t].pc = "out"
          \/ /\ drains[d].tracks[t].pc \in {"search", "download"}
             /\ drains'[d].tracks[t].pc = "cancel_remove"

\* download_album returns to the drain loop, which records its result
ReturnsAlbum(d) ==
    /\ drains[d].pc = "join"
    /\ drains'[d].pc \notin {"join", "panicked"}

\* C28: download_album returns Err("Cancelled") exactly when one of its track
\* workers observed the cancel signal; when none did, the result is Ok
\* whatever the outcomes of the tracks. The cancelled flag starts false, is
\* raised exactly by an observation, and decides the result.
C28_CancelledIffObserved ==
    [][\A d \in Drains :
          /\ (drains[d].pc = "download_album" /\ drains'[d].pc = "join")
                => ~drains'[d].cancelled
          /\ (drains[d].pc = "join" /\ drains'[d].pc = "join")
                => (drains'[d].cancelled <=> (drains[d].cancelled \/ ObservesCancel(d)))
          /\ ReturnsAlbum(d)
                => LET a == albums'[drains[d].album_idx]
                   IN /\ a.status = "error" <=> drains[d].cancelled
                      /\ a.status = "complete" <=> ~drains[d].cancelled
                      /\ drains[d].cancelled => a.error = "Cancelled"]_vars

\* one album was cancelled by a worker, another completed although a track
\* of it failed
C28_Witness ==
    \E i, j \in Entries :
        /\ albums[i].status = "error" /\ albums[i].error = "Cancelled"
        /\ albums[j].kind = "album" /\ albums[j].status = "complete"
        /\ albums[j].completed_tracks < albums[j].total_tracks

(* ------------------------------- C29 ----------------------------------- *)
\* the order of the statuses written by lines 796, 820 and 846
StatusRank(st) ==
    IF st = "searching" THEN 1 ELSE IF st = "downloading" THEN 2 ELSE 3

\* track t is listed in the active_tracks of the entry with that id
ActiveIn(as, id, t) ==
    \E i \in 1..Len(as) :
        /\ as[i].id = id
        /\ \E k \in 1..Len(as[i].active_tracks) : as[i].active_tracks[k].track_index = t

\* the worker holding track t returns at a cancel checkpoint (lines 815-816,
\* 841-842), where no progress event is emitted
LeavesAtCheckpoint(d, t) ==
    drains[d].tracks[t].pc = "cancel_remove" /\ drains'[d].tracks[t].pc = "out"

\* the worker holding track t returns because the search or the download
\* failed (lines 802-808, 828-835), where an error progress event is emitted
LeavesOnFailure(d, t) ==
    drains[d].tracks[t].pc \in {"search", "download"} /\ drains'[d].tracks[t].pc = "out"

\* C29: the status of an active track only moves forward (searching, then
\* downloading, then tagging); a track that leaves at a cancel checkpoint or
\* on a failed search or download is no longer in its album's active_tracks
\* and has not incremented the completed count.
C29_TrackLifecycle ==
    [][/\ \A i \in 1..Len(albums), j \in 1..Len(albums') :
             albums[i].id = albums'[j].id =>
                \A k \in 1..Len(albums[i].active_tracks),
                   l \in 1..Len(albums'[j].active_tracks) :
                    albums[i].active_tracks[k].track_index
                          = albums'[j].active_tracks[l].track_index
                       => StatusRank(albums'[j].active_tracks[l].status)
                             >= StatusRank(albums[i].active_tracks[k].status)
       /\ \A d \in Drains : \A t \in TracksOf(d) :
             (~poisoned /\ Len(drains'[d].tracks) = Len(drains[d].tracks)
                /\ (LeavesAtCheckpoint(d, t) \/ LeavesOnFailure(d, t)))
                => /\ ~ActiveIn(albums', drains[d].curId, t)
                   /\ drains'[d].completed = drains[d].completed
                   /\ \A i \in 1..Len(albums) :
                         albums'[i].completed_tracks = albums[i].completed_tracks]_vars

(* ------------------------------- C30 ----------------------------------- *)
\* the request of the item carries a track list that is not empty
HasList(item) == "tracks" \in DOMAIN item /\ item.tracks # <<>>

\* download_album of the drain thread d has its track list and spawns the
\* track workers (lines 917-968)
SpawnsWorkers(d) == drains[d].pc = "download_album" /\ drains'[d].pc = "join"

\* download_album of the drain thread d returns Err before it has a track
\* list (the ? of lines 893, 909 and 914) and the loop records the error
FailsBeforeTracks(d) ==
    /\ ~poisoned
    /\ drains[d].pc = "download_album"
    /\ drains'[d].pc \in {"dequeue", "panicked"}

\* C30: the track list of an album is the request's list when there is a
\* non-empty one, otherwise the fetched list; when the fetch fails, the
\* album's entry ends with status error and total_tracks 0, and no track
\* worker exists (so no search or download is started for it).
C30_TrackList ==
    [][\A d \in Drains :
          /\ SpawnsWorkers(d)
                => LET n == IF HasList(drains[d].item)
                              THEN Len(drains[d].item.tracks)
                              ELSE TrackCount(drains[d].item)
                   IN /\ drains'[d].total_tracks = n
                      /\ Len(drains'[d].tracks) = n
          /\ FailsBeforeTracks(d)
                => /\ StatusIn(albums', drains[d].curId) = "error"
                   /\ \A i \in 1..Len(albums') :
                         albums'[i].id = drains[d].curId => albums'[i].total_tracks = 0
                   /\ drains[d].tracks = <<>> /\ drains[d].waiting = 0]_vars

(* ------------------------------- C31 ----------------------------------- *)
\* no display entry has the item's artist and label and status pending
NoPendingEntry(item) ==
    ~\E i \in Entries : /\ albums[i].kind = item.kind
                        /\ albums[i].key = item.key
                        /\ albums[i].status = "pending"

\* the drain thread d executes the index lookup of lines 258-278
LooksUp(d) == drains[d].pc = "find_idx" /\ drains'[d] # drains[d]

\* C31: when the index lookup finds no pending entry for the dequeued item,
\* the item is skipped: albums, is_active, the cancel signal and the queue
\* are unchanged, nothing is emitted, and the loop is back at the dequeue.
C31_SkipsUnmatched ==
    [][\A d \in Drains :
          (LooksUp(d) /\ ~poisoned /\ NoPendingEntry(drains[d].item))
             => /\ UNCHANGED <<albums, is_active, cancel, pending_queue, worker_running>>
                /\ drains'[d].pc = "dequeue"
                /\ drains'[d].saidCancelled = drains[d].saidCancelled]_vars

\* the loop has dequeued an item whose entry is no longer pending, and a
\* further item waits in the queue
C31_Witness ==
    \E d \in Drains : /\ drains[d].pc = "find_idx"
                      /\ ~poisoned
                      /\ NoPendingEntry(drains[d].item)
                      /\ pending_queue # <<>>

(* ------------------------------- C32 ----------------------------------- *)
\* the ids of the items in the pending queue
QueuedIds == {pending_queue[k].id : k \in 1..Len(pending_queue)}

\* the drain threads that hold a dequeued item
Holders(id) == {d \in Drains : drains[d].item.id = id}

\* the drain thread d executes the dequeue block of lines 225-232
Dequeues(d) == drains[d].pc = "dequeue" /\ drains'[d] # drains[d]

\* C32: an item leaves the pending queue through one dequeue only and is held
\* by at most one drain loop, never while it is still queued; a dequeue takes
\* the head and removes it in the same critical section as the emptiness
\* check (it breaks exactly when the queue is empty); the queue changes only
\* by pushes at the tail, by the removal of the head, or by the drain of the
\* cancel branch, so items leave in the order they were pushed.
C32_DequeueOnce ==
    [][/\ Cardinality(QueuedIds) = Len(pending_queue)
       /\ \A k \in 1..Len(pending_queue) : Holders(pending_queue[k].id) = {}
       /\ \A d, e \in Drains :
             (d # e /\ drains[d].item # NoItem) => drains[d].item.id # drains[e].item.id
       /\ \A d \in Drains :
             Dequeues(d) =>
                IF pending_queue = <<>>
                  THEN /\ drains'[d].pc = "worker_done"
                       /\ pending_queue' = <<>>
                  ELSE /\ drains'[d].pc = "check_cancel"
                       /\ drains'[d].item = Head(pending_queue)
                       /\ pending_queue' = Tail(pending_queue)
       /\ pending_queue' # pending_queue =>
             \/ /\ Len(pending_queue') > Len(pending_queue)
                /\ SubSeq(pending_queue', 1, Len(pending_queue)) = pending_queue
             \/ /\ pending_queue' = Tail(pending_queue)
                /\ \E d \in Drains : Dequeues(d)
             \/ /\ pending_queue' = <<>>
                /\ \E d \in Drains : drains[d].pc = "cancel_drain"
                                       /\ drains'[d].pc = "cancel_mark"]_vars

\* the second item has been dequeued while the third waits in the queue
C32_Witness ==
    \E d \in Drains : /\ drains[d].pc = "check_cancel"
                      /\ drains[d].item.id = 2
                      /\ pending_queue # <<>>
                      /\ Head(pending_queue).id = 3

(* ------------------------------- C33 ----------------------------------- *)
\* the call of ensure_worker by c that found no loop running resets the
\* signal and spawns the drain thread (lines 215-222)
SpawnsLoop(c) ==
    /\ callers[c].pc = "spawn"
    /\ callers'[c].pc = "idle"
    /\ Len(drains') = Len(drains) + 1

\* C33: the cancel signal goes from true to false only in the step of
\* ensure_worker that spawns a new drain loop; a call that finds a loop
\* running, downloader_clear_finished and the drain loop leave it unchanged.
C33_ResetOnlyAtSpawn ==
    [][/\ (cancel /\ ~cancel') => \E c \in Callers : SpawnsLoop(c)
       /\ \A c \in Callers :
             (callers[c].pc = "ensure_worker" /\ callers'[c].pc = "idle")
                => cancel' = cancel
       /\ Len(albums') < Len(albums) => cancel' = cancel
       /\ drains' # drains /\ Len(drains') = Len(drains) => cancel' = cancel]_vars

\* a run was cancelled, and a later call of ensure_worker has reset the
\* signal and spawned a second loop
C33_Witness ==
    /\ ~cancel
    /\ Len(drains) >= 2
    /\ InLoop(Len(drains))
    /\ \E i \in Entries : albums[i].status = "cancelled"

(* ------------------------------- C34 ----------------------------------- *)
\* every command has returned and no drain thread can take a further step
Settled ==
    /\ Idle
    /\ \A d \in Drains : drains[d].pc \in {"done", "panicked"}

\* C34: an entry enqueued after a cancelled run has cleared worker_running
\* (and with no downloader_cancel since) is never marked cancelled nor given
\* the error "Cancelled", a loop spawned for it starts with the cancel signal
\* false, and once the threads have run to their end the entry is complete or
\* error.
C34_FreshRunProcesses ==
    /\ \A i \in Entries :
          albums[i].fresh => /\ albums[i].status # "cancelled"
                             /\ albums[i].error # "Cancelled"
    /\ (\E i \in Entries : albums[i].fresh /\ albums[i].status = "downloading") => ~cancel
    /\ Settled => \A i \in Entries :
                     albums[i].fresh => albums[i].status \in {"complete", "error"}

(* ------------------------------- C35 ----------------------------------- *)
\* The operations on the four mutexes (state, pending_queue, cancel,
\* worker_running) and the blocking external calls that a thread executes
\* from a position of its code, in program order.
Acq(l) == [op |-> "acquire", x |-> l]
Rel(l) == [op |-> "release", x |-> l]
Call(f) == [op |-> "call", x |-> f]
Locked(l) == <<Acq(l), Rel(l)>>

\* (a cancel branch that keeps the queue locked while it marks the entries)
OpsAt_Nested(thread, pc) ==
    IF thread = "drain" /\ pc = "cancel_drain"
      THEN {<<Acq("pending_queue"), Acq("state"), Rel("state"), Rel("pending_queue")>>}
      ELSE {}

\* the sequences a thread may execute from position pc: a command
\* (lines 553-644 and 207-222), the drain thread (lines 224-389, 886-924 and
\* 977-1078) or a track worker (lines 952-958 and 765-870)
OpsAt(thread, pc) ==
    IF thread = "command" THEN
        IF pc = "idle" THEN {Locked("state"), Locked("cancel")}
        ELSE IF pc = "enq_queue" THEN {Locked("pending_queue")}
        ELSE IF pc = "ensure_worker" THEN {Locked("worker_running")}
        ELSE {Locked("cancel")}
    ELSE IF thread = "drain" THEN
        IF pc \in {"dequeue", "cancel_drain"} THEN {Locked("pending_queue")}
        ELSE IF pc = "check_cancel" THEN {Locked("cancel")}
        ELSE IF pc = "find_idx" THEN {Locked("state") \o Locked("state")}
        ELSE IF pc = "download_album"
          THEN {<<Call("create_dir_all")>> \o Locked("state"),
                <<Call("create_dir_all"), Call("fetch_cover"), Call("fetch_tracklist")>>
                    \o Locked("state")}
        ELSE IF pc = "download_single_song"
          THEN {<<Call("download_track")>> \o Locked("state"),
                <<Call("download_track"), Call("fetch_cover"), Call("tag_track")>>
                    \o Locked("state")}
        ELSE IF pc = "worker_done" THEN {Locked("worker_running")}
        ELSE IF pc \in {"done", "panicked"} THEN {}
        ELSE {Locked("state")}
    ELSE
        IF pc = "chan" THEN {<<>>, Locked("cancel")}
        ELSE IF pc = "start" THEN {<<>>, Locked("state")}
        ELSE IF pc = "search"
          THEN {<<Call("search_youtube")>> \o Locked("state"),
                <<Call("search_youtube")>> \o Locked("cancel")}
        ELSE IF pc = "download"
          THEN {<<Call("download_track")>> \o Locked("state"),
                <<Call("download_track")>> \o Locked("cancel")}
        ELSE IF pc = "finish" THEN {<<Call("tag_track")>>}
        ELSE IF pc = "out" THEN {}
        ELSE {Locked("state")}

\* the locks held before the k-th operation of ops
HeldBefore(ops, k) ==
    {l \in {"state", "pending_queue", "cancel", "worker_running"} :
        \E i \in 1..(k - 1) :
            /\ ops[i] = Acq(l)
            /\ \A j \in (i + 1)..(k - 1) : ops[j] # Rel(l)}

\* no lock is held at an external call or at the acquisition of a lock, and
\* none is kept at the end
Disciplined(ops) ==
    /\ \A k \in 1..Len(ops) :
          ops[k].op \in {"call", "acquire"} => HeldBefore(ops, k) = {}
    /\ HeldBefore(ops, Len(ops) + 1) = {}

\* the steps of the drain thread d and of its track workers
DrainStep(d) ==
    \/ Dequeue(d) \/ CheckCancel(d) \/ CancelDrain(d) \/ CancelMark(d)
    \/ FindIdx(d) \/ MarkDownloading(d) \/ DownloadAlbumFails(d)
    \/ DownloadAlbumStart(d) \/ AlbumResult(d) \/ DownloadSingleSong(d)
    \/ WorkerDone(d) \/ AnyPending(d) \/ SetInactive(d)
    \/ WRecv(d)
    \/ \E t \in TracksOf(d) :
          \/ WSkip(d, t) \/ WAddActive(d, t) \/ WFail(d, t) \/ WCheckpoint(d, t)
          \/ WCancelRemove(d, t) \/ WSetStatus(d, t) \/ WFinish(d, t)
          \/ WRemoveDone(d, t) \/ WWriteCount(d, t)

\* the steps of the command running in caller c
CommandStep(c) == EnqueueQueue(c) \/ EnsureWorkerGate(c) \/ EnsureWorkerSpawn(c)

ReturnsSong(d) ==
    /\ ~poisoned
    /\ drains[d].pc = "download_single_song"
    /\ drains'[d].pc # "download_single_song"

\* C36: every song entry has total_tracks 1; when download_single_song
\* returns, the song's entry is complete with completed_tracks 1 (Ok: the
\* file was downloaded, or existed already) or error with completed_tracks 0
\* and an error message (Err).
C36_SongOutcome ==
    [][/\ \A i \in Entries : albums[i].kind = "song" => albums[i].total_tracks = 1
       /\ \A d \in Drains :
             ReturnsSong(d) =>
                \E i \in 1..Len(albums') :
                    /\ albums'[i].id = drains[d].curId
                    /\ albums'[i].kind = "song"
                    /\ \/ /\ albums'[i].status = "complete"
                          /\ albums'[i].completed_tracks = 1
                          /\ albums'[i].error = "none"
                       \/ /\ albums'[i].status = "error"
                          /\ albums'[i].completed_tracks = 0
                          /\ albums'[i].error # "none"]_vars

(* ------------------------------- C37 ----------------------------------- *)
\* number of SetMuted commands in the channel
PendingSetMuted == Cardinality({k \in 1..Len(cmd_rx) : cmd_rx[k].cmd = "SetMuted"})

\* n calls of toggle_mute were made and have returned, and the audio thread
\* has processed the commands they sent
TogglesProcessed(n) ==
    /\ calls.toggles = n
    /\ \A h \in Handles : handles[h].pc # "toggle_mute"
    /\ PendingSetMuted = 0

\* C37: once two toggle_mute calls have returned and the audio thread has
\* processed both SetMuted commands, is_muted has its original value (false,
\* the value of AudioState::new(): nothing but toggle_mute sends SetMuted).
C37_TogglesRestore == TogglesProcessed(2) => state.is_muted = FALSE

(* ------------------------------- C38 ----------------------------------- *)
\* C38: after every handle_command and tick of the audio thread the shared
\* is_playing equals the position tracker's is_playing(), and after a Pause
\* has been handled the sink produces no sound.
C38_PlayingAgrees ==
    [][/\ AudioThreadStep => (state'.is_playing = is_playing(position'))
       /\ pause => ~Audible']_vars

=============================================================================
